---- MODULE Spec2Model ----
(***************************************************************************)
(* A model of streamlit_app.py: the simplified CIPW normative calculation *)
(* (calculate_cipw), the Streamlit script's session state and its CSV     *)
(* upload / reset / calculate handlers, and the saved-analyses document   *)
(* (load_saved_analyses, write_saved_analyses) on a shared file.          *)
(*                                                                         *)
(* Numbers.  Python floats are modelled by exact rational arithmetic on   *)
(* integers:                                                               *)
(*   - an oxide value is an integer number of wt%;                         *)
(*   - a raw mineral weight w is held as the integer w * RAW_SCALE;        *)
(*   - a normative weight (rounded to 4 decimals) is held as the integer  *)
(*     number of 1e-4 wt%, so 100.0 is 1000000;                            *)
(*   - round(x, 4) rounds the exact quotient half-to-even, as Python's    *)
(*     round does on the value it is given.                                *)
(***************************************************************************)
EXTENDS Integers, Sequences, FiniteSets, TLC

VARIABLES
    oxide_values,   \* calculate_cipw's argument: oxide name -> wt% (a key may be missing)
    calc,           \* the last call of calculate_cipw: NoCall, or its locals and result
                    \* (the result is what last_results_df holds)
    session_state,  \* st.session_state["oxide_" + ox], for each oxide
    uploaded,       \* the file held by st.file_uploader: NoFile or a CSV file
    messages,       \* what the CSV handler reported (st.error / st.success) in the last run
    pre_csv,        \* session_state as the last run found it at line 162
    halted,         \* the last script run stopped with an exception at line 150
    strict_min,     \* whether this Streamlit build checks value >= min_value when min_value = 0.0
    events,         \* the number of user interactions so far
    disk,           \* the file data/saved_analyses.json
    wpc,            \* each writer: "idle", "modified" (document built), "writing" (file open)
    wpos,           \* each writer's offset in the file it has open
    wtext,          \* the text json.dump makes of the document each writer writes
    wrec,           \* the record each writer saves
    wstatus,        \* how each writer's last save ended: "none", "done", "failed", "killed"
    quiet,          \* no other writer has touched the file since this writer opened it
    versions,       \* the file at the start, and the complete text of every write begun
    observed,       \* what the reader's last load found in the file
    loaded,         \* what the reader's last load returned or raised
    saves           \* the number of saves started

calcVars == <<oxide_values, calc>>

uiVars == <<session_state, uploaded, messages, pre_csv, halted, strict_min, events>>

storeVars == <<disk, wpc, wpos, wtext, wrec, wstatus, quiet, versions, observed,
               loaded, saves>>

vars == <<oxide_values, calc, session_state, uploaded, messages, pre_csv, halted,
          strict_min, events, disk, wpc, wpos, wtext, wrec, wstatus, quiet, versions,
          observed, loaded, saves>>

(***************************************************************************)
(* Configuration (lines 35, 40-41)                                         *)
(***************************************************************************)
OXIDES == <<"SiO2", "Al2O3", "Fe2O3", "FeO", "MgO", "CaO", "Na2O", "K2O", "TiO2", "P2O5">>

OxideNames == {OXIDES[i] : i \in 1..Len(OXIDES)}

\* MW_FE2O3 = 159.69 and MW_FEO = 71.844, in thousandths.
MW_FE2O3 == 159690

MW_FEO == 71844

MINERALS == <<"Quartz (Q)", "Orthoclase (Or)", "Albite (Ab)", "Anorthite (An)",
              "Diopside (Di)", "Olivine (Ol)", "Magnetite (Mt)", "Ilmenite (Il)",
              "Apatite (Ap)">>

MineralNames == {MINERALS[i] : i \in 1..Len(MINERALS)}

(***************************************************************************)
(* Exact arithmetic helpers                                                *)
(***************************************************************************)
RECURSIVE GCD(_, _)
GCD(a, b) == IF b = 0 THEN a ELSE GCD(b, a % b)

LCM(a, b) == (a \div GCD(a, b)) * b

Abs(x) == IF x < 0 THEN -x ELSE x

\* The factor (2 * MW_FEO) / MW_FE2O3 of line 56 as a fraction in lowest terms.
FEO_NUM == (2 * MW_FEO) \div GCD(2 * MW_FEO, MW_FE2O3)

FEO_DEN == MW_FE2O3 \div GCD(2 * MW_FEO, MW_FE2O3)

\* The common denominator of the raw weights: the coefficients of lines 59-67
\* are hundredths, and Olivine is 9/10 of a multiple of 1/FEO_DEN.
RAW_SCALE == LCM(100, 10 * FEO_DEN)

\* The mineral coefficients of lines 60-67, in hundredths.
COEF == [k \in MineralNames |->
           CASE k = "Quartz (Q)"      -> 100
             [] k = "Orthoclase (Or)" -> 658
             [] k = "Albite (Ab)"     -> 852
             [] k = "Anorthite (An)"  -> 235
             [] k = "Diopside (Di)"   -> 110
             [] k = "Olivine (Ol)"    -> 90
             [] k = "Magnetite (Mt)"  -> 143
             [] k = "Ilmenite (Il)"   -> 189
             [] k = "Apatite (Ap)"    -> 333]

\* round(..., 4): the number of decimals kept (line 71).
NDIGITS == 4

\* q, r with a * 10^k = q * den + r and 0 <= r < den, for a >= 0, den > 0,
\* one decimal digit at a time.
RECURSIVE LongDiv(_, _, _, _)
LongDiv(q, r, den, k) ==
    IF k = 0 THEN [q |-> q, r |-> r]
    ELSE LongDiv(q * 10 + (r * 10) \div den, (r * 10) % den, den, k - 1)

\* round((num / den) * 100.0, ndigits) in units of 10^-ndigits: the nearest
\* integer to num * 10^(ndigits + 2) / den, a tie going to the even one.
PyRoundPct(num, den, ndigits) ==
    LET n  == IF den < 0 THEN -num ELSE num
        d  == Abs(den)
        a  == Abs(n)
        qr == LongDiv(a \div d, a % d, d, ndigits + 2)
        up == 2 * qr.r > d \/ (2 * qr.r = d /\ qr.q % 2 = 1)
        m  == IF up THEN qr.q + 1 ELSE qr.q
    IN  IF n < 0 THEN -m ELSE m

(***************************************************************************)
(* calculate_cipw (lines 43-85)                                            *)
(***************************************************************************)
\* oxides.get(k, 0.0)
Get(oxides, k) == IF k \in DOMAIN oxides THEN oxides[k] ELSE 0

\* Line 55's condition with "and" read as "or".
ImputesOr(FeO, Fe2O3) == FeO <= 0 \/ Fe2O3 > 0

\* Line 55: if FeO <= 0 and Fe2O3 > 0
Imputes(FeO, Fe2O3) == FeO <= 0 /\ Fe2O3 > 0

\* Lines 55-56: the FeO used below, times FEO_DEN.
EffectiveFeO(FeO, Fe2O3) ==
    IF Imputes(FeO, Fe2O3) THEN Fe2O3 * FEO_NUM ELSE FeO * FEO_DEN

\* Quartz without max(0.0, ...).
QuartzUnclipped(SiO2, Al2O3, CaO, MgO) == SiO2 - (Al2O3 * 2 + CaO + MgO)

\* Line 59: max(0.0, SiO2 - (Al2O3 * 2.0 + CaO + MgO))
Quartz(SiO2, Al2O3, CaO, MgO) ==
    LET x == SiO2 - (Al2O3 * 2 + CaO + MgO) IN IF x > 0 THEN x ELSE 0

\* Lines 58-68: raw, each weight times RAW_SCALE; feo is FeO times FEO_DEN.
RawWeights(oxides, feo) ==
    LET h == RAW_SCALE \div 100
        v(ox) == Get(oxides, ox)
    IN  [k \in MineralNames |->
           CASE k = "Quartz (Q)"      ->
                  Quartz(v("SiO2"), v("Al2O3"), v("CaO"), v("MgO")) * COEF[k] * h
             [] k = "Orthoclase (Or)" -> v("K2O") * COEF[k] * h
             [] k = "Albite (Ab)"     -> v("Na2O") * COEF[k] * h
             [] k = "Anorthite (An)"  -> v("CaO") * COEF[k] * h
             [] k = "Diopside (Di)"   -> (v("CaO") + v("MgO")) * COEF[k] * h
             [] k = "Olivine (Ol)"    ->
                  (v("MgO") * FEO_DEN + feo) * (COEF[k] \div 10)
                      * (RAW_SCALE \div (10 * FEO_DEN))
             [] k = "Magnetite (Mt)"  -> v("Fe2O3") * COEF[k] * h
             [] k = "Ilmenite (Il)"   -> v("TiO2") * COEF[k] * h
             [] k = "Apatite (Ap)"    -> v("P2O5") * COEF[k] * h]

RECURSIVE SumOver(_, _)
SumOver(f, n) == IF n = 0 THEN 0 ELSE f[MINERALS[n]] + SumOver(f, n - 1)

\* A sum that leaves the last mineral out.
total_raw_short(raw) == SumOver(raw, Len(MINERALS) - 1)

\* Line 70: total_raw = sum(raw.values())
total_raw(raw) == SumOver(raw, Len(MINERALS))

\* Line 71's guard with ">" read as ">=".
DividesAtZero(total) == total >= 0

\* Line 71: ... if total_raw > 0 else 0.0
Divides(total) == total > 0

\* Line 71: round((v / total_raw) * 100.0, 4)
Rounded(v, total) == PyRoundPct(v, total, NDIGITS)

\* Line 71: the minerals comprehension. raised: a division by zero was made.
Normalize(raw, total) ==
    IF Divides(total) /\ total = 0
    THEN [raised |-> TRUE, minerals |-> [k \in MineralNames |-> 0]]
    ELSE [raised |-> FALSE,
          minerals |-> [k \in MineralNames |->
                          IF Divides(total) THEN Rounded(raw[k], total) ELSE 0]]

\* The call's locals (FeO after line 56, raw, total_raw) and what it returns.
calculate_cipw(oxides) ==
    LET Fe2O3 == Get(oxides, "Fe2O3")
        FeO   == EffectiveFeO(Get(oxides, "FeO"), Fe2O3)
        raw   == RawWeights(oxides, FeO)
        total == total_raw(raw)
        out   == Normalize(raw, total)
    IN  [oxides |-> oxides, Fe2O3 |-> Fe2O3, FeO |-> FeO, raw |-> raw,
         total_raw |-> total, raised |-> out.raised, minerals |-> out.minerals]

NoCall == [raised |-> FALSE]

(***************************************************************************)
(* The compositions calculate_cipw is called with when checked on its own *)
(***************************************************************************)
OxideChoices == [SiO2 |-> {0, 1, 40, 60}, Al2O3 |-> {0, 1, 15, 30}, Fe2O3 |-> {0, 3, 10},
                 FeO |-> {-1, 0, 4}, MgO |-> {0, 5}, CaO |-> {0, 7, 10},
                 Na2O |-> {0, 3}, K2O |-> {0, 2}, TiO2 |-> {0, 1}, P2O5 |-> {0, 1}]

\* Drop(o, k): the mapping o without the key k.
Drop(o, k) == [x \in (DOMAIN o) \ {k} |-> o[x]]

\* A composition with every key, or with FeO left out.
Compositions ==
    LET full == {[SiO2 |-> a, Al2O3 |-> b, Fe2O3 |-> c, FeO |-> d, MgO |-> e, CaO |-> f,
                  Na2O |-> g, K2O |-> h, TiO2 |-> i, P2O5 |-> j] :
                     a \in OxideChoices.SiO2, b \in OxideChoices.Al2O3,
                     c \in OxideChoices.Fe2O3, d \in OxideChoices.FeO,
                     e \in OxideChoices.MgO, f \in OxideChoices.CaO,
                     g \in OxideChoices.Na2O, h \in OxideChoices.K2O,
                     i \in OxideChoices.TiO2, j \in OxideChoices.P2O5}
    IN  full \cup {Drop(o, "FeO") : o \in {x \in full : x.FeO = 0}}

(***************************************************************************)
(* Python values and their JSON text.  A str is a sequence of characters  *)
(* (one-character strings); a dict is the sequence of its items in        *)
(* insertion order, the order json.dump writes; a float is an integer     *)
(* number of 1e-4.  A file holds a sequence of characters.                 *)
(***************************************************************************)
PyStr(s) == [t |-> "str", s |-> s]

PyFloat(n) == [t |-> "float", n |-> n]

PyInt(i) == [t |-> "int", i |-> i]

PyList(elems) == [t |-> "list", elems |-> elems]

PyDict(items) == [t |-> "dict", items |-> items]

EmptyDict == PyDict(<<>>)

QUOTE == "\""

BSLASH == "\\"

NL == "\n"

\* The byte of a hole left by a write past the end of a file.
NUL == "NUL"

DIGITS == <<"0", "1", "2", "3", "4", "5", "6", "7", "8", "9">>

DigitChars == {DIGITS[i] : i \in 1..10}

DigitVal(c) == (CHOOSE i \in 1..10 : DIGITS[i] = c) - 1

\* d[key] = val on a dict's items: the value is replaced in place, or the
\* item is appended.
SetItem(items, key, val) ==
    IF \E i \in 1..Len(items) : items[i][1] = key
    THEN [i \in 1..Len(items) |-> IF items[i][1] = key THEN <<key, val>> ELSE items[i]]
    ELSE Append(items, <<key, val>>)

HasKey(d, key) == \E i \in 1..Len(d.items) : d.items[i][1] = key

GetItem(d, key) == d.items[CHOOSE i \in 1..Len(d.items) : d.items[i][1] = key][2]

(***************************************************************************)
(* json.dump(d, f, ensure_ascii=False, indent=2) (line 102)                *)
(***************************************************************************)
RECURSIVE Spaces(_)
Spaces(n) == IF n = 0 THEN <<>> ELSE <<" ">> \o Spaces(n - 1)

\* The digits of a natural number.
RECURSIVE NatDigits(_)
NatDigits(n) == IF n < 10 THEN <<DIGITS[n + 1]>> ELSE Append(NatDigits(n \div 10), DIGITS[(n % 10) + 1])

\* The digits of a fraction f of 10^width, without trailing zeros.
RECURSIVE FracDigits(_, _)
FracDigits(f, width) ==
    IF width = 0 \/ f = 0 THEN <<>>
    ELSE LET unit == 10 ^ (width - 1)
         IN  <<DIGITS[(f \div unit) + 1]>> \o FracDigits(f % unit, width - 1)

\* float.__repr__ of n / 10^NDIGITS: "60.0", "0.5", "-1.0", "33.3333".
FloatRepr(n) ==
    LET a    == IF n < 0 THEN -n ELSE n
        unit == 10 ^ NDIGITS
        frac == FracDigits(a % unit, NDIGITS)
    IN  (IF n < 0 THEN <<"-">> ELSE <<>>) \o NatDigits(a \div unit) \o <<".">>
            \o (IF frac = <<>> THEN <<"0">> ELSE frac)

\* A character written as it is, with no escape.
EncodeCharRaw(c) == <<c>>

\* A character of a string as json writes it with ensure_ascii=False.
EncodeChar(c) ==
    IF c = QUOTE THEN <<BSLASH, QUOTE>>
    ELSE IF c = BSLASH THEN <<BSLASH, BSLASH>>
    ELSE IF c = NL THEN <<BSLASH, "n">>
    ELSE <<c>>

RECURSIVE EncodeChars(_)
EncodeChars(s) == IF s = <<>> THEN <<>> ELSE EncodeChar(Head(s)) \o EncodeChars(Tail(s))

EncodeStr(s) == <<QUOTE>> \o EncodeChars(s) \o <<QUOTE>>

\* v as json.dump writes it at nesting depth level, with indent=2.
RECURSIVE Encode(_, _), EncodeItems(_, _, _), EncodeElems(_, _, _)
Encode(v, level) ==
    CASE v.t = "str"   -> EncodeStr(v.s)
      [] v.t = "float" -> FloatRepr(v.n)
      [] v.t = "int"   -> (IF v.i < 0 THEN <<"-">> ELSE <<>>) \o NatDigits(IF v.i < 0 THEN -v.i ELSE v.i)
      [] v.t = "dict"  ->
           IF v.items = <<>> THEN <<"{", "}">>
           ELSE <<"{">> \o EncodeItems(v.items, 1, level + 1)
                    \o <<NL>> \o Spaces(2 * level) \o <<"}">>
      [] v.t = "list"  ->
           IF v.elems = <<>> THEN <<"[", "]">>
           ELSE <<"[">> \o EncodeElems(v.elems, 1, level + 1)
                    \o <<NL>> \o Spaces(2 * level) \o <<"]">>

EncodeItems(items, i, level) ==
    IF i > Len(items) THEN <<>>
    ELSE (IF i > 1 THEN <<",">> ELSE <<>>) \o <<NL>> \o Spaces(2 * level)
            \o EncodeStr(items[i][1]) \o <<":", " ">> \o Encode(items[i][2], level)
            \o EncodeItems(items, i + 1, level)

EncodeElems(elems, i, level) ==
    IF i > Len(elems) THEN <<>>
    ELSE (IF i > 1 THEN <<",">> ELSE <<>>) \o <<NL>> \o Spaces(2 * level)
            \o Encode(elems[i], level) \o EncodeElems(elems, i + 1, level)

json_dumps(d) == Encode(d, 0)

(***************************************************************************)
(* json.load(f) (line 95)                                                  *)
(***************************************************************************)
Fail == [ok |-> FALSE]

Parsed(v, pos) == [ok |-> TRUE, val |-> v, pos |-> pos]

WhiteSpace == {" ", NL}

RECURSIVE SkipWs(_, _)
SkipWs(b, i) == IF i <= Len(b) /\ b[i] \in WhiteSpace THEN SkipWs(b, i + 1) ELSE i

\* The string whose opening quote is before position i.
RECURSIVE ScanString(_, _, _)
ScanString(b, i, acc) ==
    IF i > Len(b) THEN Fail
    ELSE IF b[i] = QUOTE THEN Parsed(PyStr(acc), i + 1)
    ELSE IF b[i] = BSLASH
         THEN IF i + 1 > Len(b) THEN Fail
              ELSE IF b[i + 1] \in {QUOTE, BSLASH} THEN ScanString(b, i + 2, Append(acc, b[i + 1]))
              ELSE IF b[i + 1] = "n" THEN ScanString(b, i + 2, Append(acc, NL))
              ELSE Fail
    ELSE IF b[i] \in {NL, NUL} THEN Fail
    ELSE ScanString(b, i + 1, Append(acc, b[i]))

RECURSIVE ScanInt(_, _, _)
ScanInt(b, i, n) ==
    IF i <= Len(b) /\ b[i] \in DigitChars THEN ScanInt(b, i + 1, n * 10 + DigitVal(b[i]))
    ELSE [n |-> n, pos |-> i]

\* The fraction digits from position i: the first NDIGITS of them as a number
\* of 10^-NDIGITS (a float of the model holds no more).
RECURSIVE ScanFrac(_, _, _, _)
ScanFrac(b, i, n, cnt) ==
    IF i <= Len(b) /\ b[i] \in DigitChars
    THEN ScanFrac(b, i + 1, IF cnt < NDIGITS THEN n * 10 + DigitVal(b[i]) ELSE n, cnt + 1)
    ELSE [n |-> IF cnt < NDIGITS THEN n * 10 ^ (NDIGITS - cnt) ELSE n, pos |-> i]

\* -?(0|[1-9][0-9]*)(\.[0-9]+)?
ParseNumber(b, i) ==
    LET neg == b[i] = "-"
        j   == IF neg THEN i + 1 ELSE i
    IN  IF j > Len(b) \/ b[j] \notin DigitChars THEN Fail
        ELSE LET ip   == IF b[j] = "0" THEN [n |-> 0, pos |-> j + 1] ELSE ScanInt(b, j, 0)
                 frac == ip.pos + 1 <= Len(b) /\ b[ip.pos] = "." /\ b[ip.pos + 1] \in DigitChars
                 fr   == ScanFrac(b, ip.pos + 1, 0, 0)
                 sign == IF neg THEN -1 ELSE 1
             IN  IF frac THEN Parsed(PyFloat(sign * (ip.n * 10 ^ NDIGITS + fr.n)), fr.pos)
                 ELSE Parsed(PyInt(sign * ip.n), ip.pos)

\* The value that starts at position i (not a white space).
RECURSIVE ParseValue(_, _), ParseMembers(_, _, _), ParseElems(_, _, _)
ParseValue(b, i) ==
    IF i > Len(b) THEN Fail
    ELSE CASE b[i] = "{" ->
                LET j == SkipWs(b, i + 1)
                IN  IF j <= Len(b) /\ b[j] = "}" THEN Parsed(EmptyDict, j + 1)
                    ELSE ParseMembers(b, j, <<>>)
           [] b[i] = "[" ->
                LET j == SkipWs(b, i + 1)
                IN  IF j <= Len(b) /\ b[j] = "]" THEN Parsed(PyList(<<>>), j + 1)
                    ELSE ParseElems(b, j, <<>>)
           [] b[i] = QUOTE -> ScanString(b, i + 1, <<>>)
           [] b[i] = "-" \/ b[i] \in DigitChars -> ParseNumber(b, i)
           [] OTHER -> Fail

ParseMembers(b, i, acc) ==
    IF i > Len(b) \/ b[i] # QUOTE THEN Fail
    ELSE LET k == ScanString(b, i + 1, <<>>)
         IN  IF ~k.ok THEN Fail
             ELSE LET c == SkipWs(b, k.pos)
                  IN  IF c > Len(b) \/ b[c] # ":" THEN Fail
                      ELSE LET v == ParseValue(b, SkipWs(b, c + 1))
                           IN  IF ~v.ok THEN Fail
                               ELSE LET items == SetItem(acc, k.val.s, v.val)
                                        e == SkipWs(b, v.pos)
                                    IN  IF e > Len(b) THEN Fail
                                        ELSE IF b[e] = "}" THEN Parsed(PyDict(items), e + 1)
                                        ELSE IF b[e] = ","
                                             THEN ParseMembers(b, SkipWs(b, e + 1), items)
                                        ELSE Fail

ParseElems(b, i, acc) ==
    LET v == ParseValue(b, i)
    IN  IF ~v.ok THEN Fail
        ELSE LET e == SkipWs(b, v.pos)
             IN  IF e > Len(b) THEN Fail
                 ELSE IF b[e] = "]" THEN Parsed(PyList(Append(acc, v.val)), e + 1)
                 ELSE IF b[e] = "," THEN ParseElems(b, SkipWs(b, e + 1), Append(acc, v.val))
                 ELSE Fail

\* json.load: one value, white space around it, nothing after it; raised
\* stands for json.JSONDecodeError.
json_load(b) ==
    LET v == ParseValue(b, SkipWs(b, 1))
    IN  IF v.ok /\ SkipWs(b, v.pos) > Len(b) THEN [raised |-> FALSE, value |-> v.val]
        ELSE [raised |-> TRUE]

(***************************************************************************)
(* The saved-analyses document (lines 30-31, 90-102)                       *)
(*                                                                         *)
(* disk is the file data/saved_analyses.json: whether it exists, whether   *)
(* this user may open it, and its bytes.  load_saved_analyses reads it in  *)
(* one step.  write_saved_analyses is a sequence of steps on the file:     *)
(* open(..., "w") creates or truncates it, then the buffered text reaches  *)
(* the file in writes of at most FlushLen characters at the writer's own   *)
(* offset, the last of them when the with block closes the file.           *)
(***************************************************************************)
Writers == {1, 2}

\* The size of one write to the file, in characters (io's buffer size).
FlushLen == 200

\* The number of saves started in one behaviour.
MaxSaves == 2

\* What a reader can observe of the file.
View(d) ==
    IF ~d.exists THEN [kind |-> "absent"]
    ELSE IF ~d.access THEN [kind |-> "denied"]
    ELSE [kind |-> "bytes", content |-> d.content]

\* write(fd, chunk) at offset pos: the bytes are overwritten in place, the
\* file grows as needed, and a gap before pos reads as NUL bytes.
WriteAt(content, pos, chunk) ==
    LET end == pos + Len(chunk)
        n   == IF Len(content) > end THEN Len(content) ELSE end
    IN  [i \in 1..n |->
           IF i > pos /\ i <= end THEN chunk[i - pos]
           ELSE IF i <= Len(content) THEN content[i]
           ELSE NUL]

\* Lines 94-96: open for reading, json.load, and the isinstance test.
LoadBody(d) ==
    IF ~d.exists \/ ~d.access THEN [raised |-> TRUE]
    ELSE LET data == json_load(d.content)
         IN  IF data.raised THEN [raised |-> TRUE]
             ELSE [raised |-> FALSE,
                   value |-> IF data.value.t = "dict" THEN data.value ELSE EmptyDict]

\* No except clause: what the body raises reaches the caller.
ExceptNothing(r) == r

\* Lines 97-98: except: return {}
ExceptAll(r) == IF r.raised THEN [raised |-> FALSE, value |-> EmptyDict] ELSE r

\* Lines 90-98.
load_saved_analyses(d) ==
    IF ~d.exists THEN [raised |-> FALSE, value |-> EmptyDict]
    ELSE ExceptAll(LoadBody(d))

(***************************************************************************)
(* The records saved (spec section 3, AnalysisRecord) and the documents    *)
(* found on disk at the start                                              *)
(***************************************************************************)
K_name == <<"n", "a", "m", "e">>

K_timestamp == <<"t", "i", "m", "e", "s", "t", "a", "m", "p">>

K_note == <<"n", "o", "t", "e">>

K_oxides == <<"o", "x", "i", "d", "e", "s">>

K_result == <<"r", "e", "s", "u", "l", "t">>

AnalysisRecord(name, timestamp, note, oxides, result) ==
    PyDict(<< <<K_name, PyStr(name)>>, <<K_timestamp, PyStr(timestamp)>>,
              <<K_note, PyStr(note)>>, <<K_oxides, PyDict(oxides)>>,
              <<K_result, PyDict(result)>> >>)

Date1 == <<"2", "0", "2", "5", "-", "0", "1", "-", "0", "2">>

Date2 == <<"2", "0", "2", "5", "-", "1", "1", "-", "3", "0", "T", "0", "9", ":", "1", "5">>

\* A record named "a", and a longer one named "b" whose note needs escapes.
Records ==
    { AnalysisRecord(<<"a">>, Date1, <<>>,
                     << <<(<<"S", "i", "O", "2">>), PyFloat(600000)>> >>,
                     << <<(<<"Q">>), PyFloat(1000000)>> >>),
      AnalysisRecord(<<"b">>, Date2, <<"s", "a", "y", " ", QUOTE, "h", "i", QUOTE, NL, BSLASH>>,
                     << <<(<<"F", "e", "O">>), PyFloat(-5000)>>,
                        <<(<<"F", "e", "2", "O", "3">>), PyFloat(100000)>> >>,
                     << <<(<<"O", "l">>), PyFloat(361554)>>,
                        <<(<<"M", "t">>), PyFloat(638446)>> >>) }

NameOf(rec) == GetItem(rec, K_name).s

File(content) == [exists |-> TRUE, access |-> TRUE, content |-> content]

SampleDoc ==
    PyDict(<< <<(<<"b">>), AnalysisRecord(<<"b">>, Date1, <<>>,
                                          << <<(<<"C", "a", "O">>), PyFloat(70000)>> >>,
                                          << <<(<<"A", "n">>), PyFloat(1000000)>> >>)>> >>)

\* The file at the start: missing, a document, a document cut short, JSON
\* that is not a mapping, or a file that cannot be opened.
InitialDisks ==
    LET text == json_dumps(SampleDoc)
    IN  { [exists |-> FALSE, access |-> TRUE, content |-> <<>>],
          File(text),
          File(SubSeq(text, 1, Len(text) \div 2)),
          File(<<"[", "]">>),
          [exists |-> TRUE, access |-> FALSE, content |-> text] }

(***************************************************************************)
(* The Streamlit script (lines 133-222).  Every user interaction runs the *)
(* script from the top with the widgets' values; st.session_state and the *)
(* uploaded file live across runs.  One action is one interaction with    *)
(* the script run(s) it causes.  A number_input called with a new value=  *)
(* returns that value until the user edits it (its identity includes its  *)
(* arguments), so line 150 changes session_state only for an edited       *)
(* widget.  The right column (lines 194-219) only reads the results.      *)
(***************************************************************************)
NoFile == [kind |-> "none"]

\* A cell of the CSV's one row: a number, or text float() cannot read.
Num(n) == <<"num", n>>

Text == <<"text", 0>>

IsNum(cell) == cell[1] = "num"

\* df_csv: readable (pd.read_csv succeeds), shape[0], columns, iloc[0].
CsvFile(readable, rows, cols, row) ==
    [kind |-> "csv", readable |-> readable, rows |-> rows, cols |-> cols, row |-> row]

MSG_READ == "Failed to read CSV"

MSG_ROWS == "CSV must contain exactly one row (one analysis)."

MSG_MISSING == "Missing required columns"

MSG_NONNUMERIC == "CSV contains non-numeric value(s) in oxide columns."

MSG_LOADED == "Values loaded from CSV successfully"

\* The index in OXIDES of the first oxide whose cell float() cannot read, or
\* Len(OXIDES) + 1 when there is none.
RECURSIVE FirstNonNumeric(_, _)
FirstNonNumeric(row, i) ==
    IF i > Len(OXIDES) THEN i
    ELSE IF ~IsNum(row[OXIDES[i]]) THEN i
    ELSE FirstNonNumeric(row, i + 1)

Index(ox) == CHOOSE i \in 1..Len(OXIDES) : OXIDES[i] = ox

\* Lines 174-175 run for the oxides before index stop.
LoadedUpTo(sess, row, stop) ==
    [ox \in OxideNames |-> IF Index(ox) < stop THEN row[ox][2] ELSE sess[ox]]

\* Lines 172-179.  The loop assigns cell by cell until float() raises.  When
\* it ends, st.success is shown and st.rerun() raises the script runner's
\* RerunException, a BaseException, inside the try: the bare except of line
\* 178 catches it, reports MSG_NONNUMERIC, and the run goes on.
CsvRow(sess, row) ==
    LET stop == FirstNonNumeric(row, 1)
    IN  [session  |-> LoadedUpTo(sess, row, stop),
         messages |-> IF stop > Len(OXIDES) THEN <<MSG_LOADED, MSG_NONNUMERIC>>
                      ELSE <<MSG_NONNUMERIC>>]

\* Lines 162-181.
CsvHandler(sess, file) ==
    IF file = NoFile THEN [session |-> sess, messages |-> <<>>]
    ELSE IF ~file.readable THEN [session |-> sess, messages |-> <<MSG_READ>>]
    ELSE IF file.rows # 1 THEN [session |-> sess, messages |-> <<MSG_ROWS>>]
    ELSE IF \E c \in OxideNames : c \notin file.cols
         THEN [session |-> sess, messages |-> <<MSG_MISSING>>]
    ELSE CsvRow(sess, file.row)

\* Line 150: number_input(ox, min_value=0.0, value=session value) raises for
\* a value below min_value in a build that checks it.
InputsRender(sess, strict) == ~strict \/ \A ox \in OxideNames : sess[ox] >= 0

\* One script run in which no button is pressed: line 150 with the session
\* values sess, then the CSV handler.
RunScript(sess, file, strict) ==
    IF ~InputsRender(sess, strict)
    THEN [session |-> sess, messages |-> <<>>, pre |-> sess, halted |-> TRUE]
    ELSE LET h == CsvHandler(sess, file)
         IN  [session |-> h.session, messages |-> h.messages, pre |-> sess, halted |-> FALSE]

Zero == [ox \in OxideNames |-> 0]

MaxEvents == 3

\* What the user types into a number input (the widget refuses a value < 0).
EditValues == {0, 3}

RowOf(base, pos, cell) ==
    [ox \in OxideNames |-> IF Index(ox) = pos THEN cell ELSE Num(base)]

\* The files a user uploads.
CsvFiles ==
    LET all == OxideNames
    IN  {CsvFile(FALSE, 0, {}, RowOf(1, 0, Text))}
        \cup {CsvFile(TRUE, n, all, RowOf(1, 0, Text)) : n \in {0, 2}}
        \cup {CsvFile(TRUE, 1, all \ {c}, RowOf(1, 0, Text)) : c \in {"SiO2", "P2O5"}}
        \cup {CsvFile(TRUE, 1, all, RowOf(b, 0, Text)) : b \in {1, 2}}
        \cup {CsvFile(TRUE, 1, all, RowOf(b, p, c)) :
                  b \in {1, 2}, p \in {1, 4, 10}, c \in {Text, Num(-1)}}

\* Before the reader's first load.
NotLoaded == [kind |-> "nothing"]

NoFileYet == [exists |-> FALSE, access |-> TRUE, content |-> <<>>]

StoreAtRest ==
    /\ disk = NoFileYet
    /\ wpc = [w \in Writers |-> "idle"]
    /\ wpos = [w \in Writers |-> 0]
    /\ wtext = [w \in Writers |-> <<>>]
    /\ wrec = [w \in Writers |-> EmptyDict]
    /\ wstatus = [w \in Writers |-> "none"]
    /\ quiet = [w \in Writers |-> FALSE]
    /\ versions = {View(NoFileYet)}
    /\ observed = NotLoaded
    /\ loaded = [raised |-> FALSE, value |-> EmptyDict]
    /\ saves = 0

UIAtRest ==
    /\ session_state = Zero
    /\ uploaded = NoFile
    /\ messages = <<>>
    /\ pre_csv = Zero
    /\ halted = FALSE
    /\ strict_min = TRUE
    /\ events = 0
    /\ oxide_values = Zero
    /\ calc = NoCall

InitUI ==
    /\ session_state = Zero
    /\ uploaded = NoFile
    /\ messages = <<>>
    /\ pre_csv = Zero
    /\ halted = FALSE
    /\ strict_min \in BOOLEAN
    /\ events = 0
    /\ oxide_values = Zero
    /\ calc = NoCall
    /\ StoreAtRest

\* The widgets after the number inputs are there only when line 150 passed.
Interactive == ~halted /\ events < MaxEvents

Ran(r) ==
    /\ session_state' = r.session
    /\ messages' = r.messages
    /\ pre_csv' = r.pre
    /\ halted' = r.halted
    /\ events' = events + 1
    /\ UNCHANGED strict_min

\* The user edits the number input of ox (line 150), and the script runs.  A
\* halted script still shows the inputs before the one that raised.
EditOxide(ox, v) ==
    /\ events < MaxEvents
    /\ halted => \A o \in OxideNames : Index(o) <= Index(ox) => session_state[o] >= 0
    /\ Ran(RunScript([session_state EXCEPT ![ox] = v], uploaded, strict_min))
    /\ UNCHANGED <<uploaded, oxide_values, calc>>
    /\ UNCHANGED storeVars

\* Lines 152-156: the inputs are zeroed and st.rerun() runs the script again.
ResetAll ==
    /\ Interactive
    /\ Ran(IF InputsRender(session_state, strict_min)
           THEN RunScript(Zero, uploaded, strict_min)
           ELSE RunScript(session_state, uploaded, strict_min))
    /\ UNCHANGED <<uploaded, oxide_values, calc>>
    /\ UNCHANGED storeVars

\* Line 161: a file is put into the uploader, and the script runs.
Upload(file) ==
    /\ Interactive
    /\ uploaded' = file
    /\ Ran(RunScript(session_state, file, strict_min))
    /\ UNCHANGED <<oxide_values, calc>>
    /\ UNCHANGED storeVars

\* The file is taken out of the uploader, and the script runs.
RemoveFile ==
    /\ Interactive
    /\ uploaded # NoFile
    /\ uploaded' = NoFile
    /\ Ran(RunScript(session_state, NoFile, strict_min))
    /\ UNCHANGED <<oxide_values, calc>>
    /\ UNCHANGED storeVars

\* Lines 184-191: the run reaches the button after line 150 and the CSV
\* handler, computes from the session values, and st.rerun() runs the script
\* once more.
Calculate ==
    /\ Interactive
    /\ LET first == RunScript(session_state, uploaded, strict_min)
       IN  IF first.halted
           THEN Ran(first) /\ UNCHANGED <<oxide_values, calc>>
           ELSE /\ oxide_values' = first.session
                /\ calc' = calculate_cipw(first.session)
                /\ Ran([RunScript(first.session, uploaded, strict_min)
                           EXCEPT !.pre = first.pre])
    /\ UNCHANGED uploaded
    /\ UNCHANGED storeVars

Next ==
    \/ \E ox \in OxideNames, v \in EditValues : EditOxide(ox, v)
    \/ ResetAll
    \/ \E file \in CsvFiles : Upload(file)
    \/ RemoveFile
    \/ Calculate

Spec == InitUI /\ [][Next]_vars

(***************************************************************************)
(* The calculator on its own: every composition of a bounded set, then    *)
(* one call.                                                               *)
(***************************************************************************)
InitCalc ==
    /\ oxide_values \in Compositions
    /\ calc = NoCall
    /\ session_state = Zero
    /\ uploaded = NoFile
    /\ messages = <<>>
    /\ pre_csv = Zero
    /\ halted = FALSE
    /\ strict_min = TRUE
    /\ events = 0
    /\ StoreAtRest

Compute ==
    /\ calc = NoCall
    /\ calc' = calculate_cipw(oxide_values)
    /\ UNCHANGED <<oxide_values, session_state, uploaded, messages, pre_csv, halted,
                   strict_min, events>>
    /\ UNCHANGED storeVars

NextCalc == Compute

SpecCalc == InitCalc /\ [][NextCalc]_vars

(***************************************************************************)
(* Saving and loading, as processes on the one file.  A save (spec         *)
(* section 4.2) loads the whole document, sets the record under its name   *)
(* and writes the whole document back with write_saved_analyses.           *)
(***************************************************************************)
InitStore ==
    /\ disk \in InitialDisks
    /\ wpc = [w \in Writers |-> "idle"]
    /\ wpos = [w \in Writers |-> 0]
    /\ wtext = [w \in Writers |-> <<>>]
    /\ wrec = [w \in Writers |-> EmptyDict]
    /\ wstatus = [w \in Writers |-> "none"]
    /\ quiet = [w \in Writers |-> FALSE]
    /\ versions = {View(disk)}
    /\ observed = NotLoaded
    /\ loaded = [raised |-> FALSE, value |-> EmptyDict]
    /\ saves = 0
    /\ UIAtRest

\* d[record.name] = record
Upsert(d, rec) == PyDict(SetItem(d.items, NameOf(rec), rec))

\* save, first half: d = load_all(); d[record.name] = record; and the text
\* json.dump will write.  What load_all raises ends the save.
SaveLoad(w, rec) ==
    /\ wpc[w] = "idle"
    /\ saves < MaxSaves
    /\ saves' = saves + 1
    /\ LET got == load_saved_analyses(disk)
       IN  IF got.raised
           THEN /\ wstatus' = [wstatus EXCEPT ![w] = "failed"]
                /\ UNCHANGED <<wtext, wrec, wpc>>
           ELSE /\ wtext' = [wtext EXCEPT ![w] = json_dumps(Upsert(got.value, rec))]
                /\ wrec' = [wrec EXCEPT ![w] = rec]
                /\ wstatus' = [wstatus EXCEPT ![w] = "none"]
                /\ wpc' = [wpc EXCEPT ![w] = "modified"]
    /\ UNCHANGED <<disk, wpos, quiet, versions, observed, loaded>>
    /\ UNCHANGED <<calcVars, uiVars>>

\* Line 101: open(SAVED_JSON, "w") creates the file or cuts it to length 0;
\* it raises when the file may not be opened.
Open(w) ==
    /\ wpc[w] = "modified"
    /\ IF disk.exists /\ ~disk.access
       THEN /\ wpc' = [wpc EXCEPT ![w] = "idle"]
            /\ wstatus' = [wstatus EXCEPT ![w] = "failed"]
            /\ wtext' = [wtext EXCEPT ![w] = <<>>]
            /\ wrec' = [wrec EXCEPT ![w] = EmptyDict]
            /\ UNCHANGED <<disk, quiet, versions>>
       ELSE /\ disk' = File(<<>>)
            /\ wpc' = [wpc EXCEPT ![w] = "writing"]
            /\ quiet' = [v \in Writers |-> v = w]
            /\ versions' = versions \cup {View(File(wtext[w]))}
            /\ UNCHANGED <<wstatus, wtext, wrec>>
    /\ UNCHANGED <<wpos, observed, loaded, saves>>
    /\ UNCHANGED <<calcVars, uiVars>>

\* Line 102 and the end of the with block: the next FlushLen characters of
\* json.dump's text reach the file at this writer's offset; after the last
\* of them the file is closed.
Flush(w) ==
    /\ wpc[w] = "writing"
    /\ LET text == wtext[w]
           end  == IF wpos[w] + FlushLen < Len(text) THEN wpos[w] + FlushLen ELSE Len(text)
       IN  /\ disk' = [disk EXCEPT !.content =
                         WriteAt(disk.content, wpos[w], SubSeq(text, wpos[w] + 1, end))]
           /\ IF end = Len(text)
              THEN /\ wpc' = [wpc EXCEPT ![w] = "idle"]
                   /\ wstatus' = [wstatus EXCEPT ![w] = "done"]
                   /\ wpos' = [wpos EXCEPT ![w] = 0]
              ELSE /\ wpos' = [wpos EXCEPT ![w] = end]
                   /\ UNCHANGED <<wpc, wstatus>>
    /\ quiet' = [v \in Writers |-> v = w /\ quiet[w]]
    /\ UNCHANGED <<wtext, wrec, versions, observed, loaded, saves>>
    /\ UNCHANGED <<calcVars, uiVars>>

\* The writing process is interrupted while it has the file open: what it has
\* not written yet is lost.
Kill(w) ==
    /\ wpc[w] = "writing"
    /\ wpc' = [wpc EXCEPT ![w] = "idle"]
    /\ wstatus' = [wstatus EXCEPT ![w] = "killed"]
    /\ wpos' = [wpos EXCEPT ![w] = 0]
    /\ UNCHANGED <<disk, wtext, wrec, quiet, versions, observed, loaded, saves>>
    /\ UNCHANGED <<calcVars, uiVars>>

\* A reader calls load_saved_analyses (line 140).
Load ==
    /\ observed' = View(disk)
    /\ loaded' = load_saved_analyses(disk)
    /\ UNCHANGED <<disk, wpc, wpos, wtext, wrec, wstatus, quiet, versions, saves>>
    /\ UNCHANGED <<calcVars, uiVars>>

NextStore ==
    \/ \E w \in Writers, rec \in Records : SaveLoad(w, rec)
    \/ \E w \in Writers : Open(w)
    \/ \E w \in Writers : Flush(w)
    \/ \E w \in Writers : Kill(w)
    \/ Load

SpecStore == InitStore /\ [][NextStore]_vars

(***************************************************************************)
(* Properties of calculate_cipw, checked under SpecCalc                    *)
(***************************************************************************)
Called == calc # NoCall

NonNegative(oxides) == \A k \in DOMAIN oxides : oxides[k] >= 0

SumMinerals == SumOver(calc.minerals, Len(MINERALS))

\* 100.0 in units of 1e-4.
Hundred == 100 * 10000

\* C1: for a non-negative composition whose raw total is > 0, the nine output
\* weights sum to 100 within 1e-3 (10 units of 1e-4).
C1_SumIsHundred ==
    (Called /\ NonNegative(calc.oxides) /\ calc.total_raw > 0)
        => Abs(SumMinerals - Hundred) <= 10

\* C1's case: a call on a non-negative composition with a positive total whose
\* rounded weights do not sum to exactly 100.
C1_Witness ==
    /\ Called
    /\ NonNegative(calc.oxides)
    /\ calc.total_raw > 0
    /\ SumMinerals # Hundred

\* The FeO (times FEO_DEN) the claim C3 expects calculate_cipw to use.
ExpectedFeO(oxides) ==
    LET FeO == Get(oxides, "FeO")
        Fe2O3 == Get(oxides, "Fe2O3")
    IN  IF FeO <= 0 /\ Fe2O3 > 0 THEN Fe2O3 * FEO_NUM ELSE FeO * FEO_DEN

\* C3: FeO is imputed as Fe2O3 * (2 * 71.844 / 159.69) exactly when the given
\* FeO is <= 0 (or missing) and Fe2O3 > 0, and is used as given otherwise;
\* Magnetite is the input Fe2O3 * 1.43 and, of the raw weights, only Olivine
\* differs from what the given FeO yields.
C3_FeOImputation ==
    Called =>
        LET given == Get(calc.oxides, "FeO") * FEO_DEN
            asGiven == RawWeights(calc.oxides, given)
            g == GCD(RAW_SCALE, 10 * FEO_DEN)
        IN  /\ FEO_NUM * (159690 \div 2) = 71844 * FEO_DEN
            /\ calc.FeO = ExpectedFeO(calc.oxides)
            /\ calc.raw["Magnetite (Mt)"] * 100
                  = Get(calc.oxides, "Fe2O3") * 143 * RAW_SCALE
            /\ calc.raw["Olivine (Ol)"] * ((10 * FEO_DEN) \div g)
                  = (Get(calc.oxides, "MgO") * FEO_DEN + ExpectedFeO(calc.oxides))
                       * 9 * (RAW_SCALE \div g)
            /\ \A k \in MineralNames \ {"Olivine (Ol)"} : calc.raw[k] = asGiven[k]

\* C3's case: FeO is missing, Fe2O3 is 10, and the call used the imputed FeO
\* (8.9979..., which is 239480 / FEO_DEN) in Olivine.
C3_Witness ==
    /\ Called
    /\ "FeO" \notin DOMAIN calc.oxides
    /\ calc.oxides["Fe2O3"] = 10
    /\ calc.FeO = 239480
    /\ calc.raw["Olivine (Ol)"] > RawWeights(calc.oxides, 0)["Olivine (Ol)"]

OnlySiAl(oxides) ==
    \A k \in DOMAIN oxides : k \notin {"SiO2", "Al2O3"} => oxides[k] = 0

\* C4: when the raw total is 0, no division is made, nothing is raised and
\* every mineral is exactly 0.0; the total is 0 for a non-negative composition
\* in which only Al2O3 and SiO2 <= 2 * Al2O3 are non-zero.
C4_ZeroTotal ==
    Called =>
        /\ calc.total_raw = 0 =>
              ~calc.raised /\ \A k \in MineralNames : calc.minerals[k] = 0
        /\ (NonNegative(calc.oxides) /\ OnlySiAl(calc.oxides)
               /\ Get(calc.oxides, "SiO2") <= 2 * Get(calc.oxides, "Al2O3"))
              => calc.total_raw = 0

\* C4's case: SiO2 and Al2O3 are non-zero, the total is 0, all outputs are 0.
C4_Witness ==
    /\ Called
    /\ Get(calc.oxides, "SiO2") > 0
    /\ Get(calc.oxides, "Al2O3") > 0
    /\ calc.total_raw = 0
    /\ \A k \in MineralNames : calc.minerals[k] = 0

OneRowAllColumns(file) ==
    file # NoFile /\ file.readable /\ file.rows = 1 /\ OxideNames \subseteq file.cols

HasNonNumeric(file) == \E ox \in OxideNames : ~IsNum(file.row[ox])

HasNegative(file) == \E ox \in OxideNames : IsNum(file.row[ox]) /\ file.row[ox][2] < 0

InvalidCsv(file) ==
    /\ file # NoFile
    /\ ~OneRowAllColumns(file) \/ HasNonNumeric(file) \/ HasNegative(file)

Reported(msg) == \E i \in 1..Len(messages) : messages[i] = msg

\* C8: an uploaded file without exactly one row, lacking an oxide column, or
\* holding a non-numeric or negative oxide value is rejected with an error (and
\* no success is reported), and calculate_cipw is never called with a negative
\* oxide value.
C8_InvalidCsvRejected ==
    /\ (~halted /\ InvalidCsv(uploaded)) =>
           /\ Len(messages) > 0
           /\ ~Reported(MSG_LOADED)
    /\ Called => NonNegative(calc.oxides)

\* C10: when a one-row CSV with all ten columns is rejected for a non-numeric
\* value, no oxide_* session value differs from what it was before the
\* handler ran.
C10_RejectedCsvChangesNothing ==
    (~halted /\ OneRowAllColumns(uploaded) /\ HasNonNumeric(uploaded))
        => session_state = pre_csv

(***************************************************************************)
(* Properties of the saved-analyses document, checked under SpecStore      *)
(***************************************************************************)
HasLoaded == observed # NotLoaded

Malformed(view) == view.kind = "bytes" /\ json_load(view.content).raised

NotAMapping(view) ==
    /\ view.kind = "bytes"
    /\ ~json_load(view.content).raised
    /\ json_load(view.content).value.t # "dict"

\* C2: whatever a reader finds in the file, at any point of a write or after
\* an interruption of the writer, is the complete document that was there
\* before or the complete document some save writes; never an empty or partly
\* written one.
C2_ReaderSeesWholeDocument == HasLoaded => observed \in versions

\* C5: load_saved_analyses raises nothing; when the file is absent, may not be
\* opened, is not well-formed JSON or holds JSON that is not a mapping it
\* returns the empty mapping (the same answer as for an empty store), and a
\* call leaves the file as it is.
C5_LoadAbsorbsErrors ==
    /\ [](HasLoaded =>
             /\ ~loaded.raised
             /\ (\/ observed.kind \in {"absent", "denied"}
                 \/ Malformed(observed)
                 \/ NotAMapping(observed)) => loaded.value = EmptyDict)
    /\ [][Load => disk' = disk]_vars

\* C5's case: the reader loaded a file that a writer had just cut to length 0
\* or left half-written, and got the empty mapping.
C5_Witness ==
    /\ HasLoaded
    /\ Malformed(observed)
    /\ observed \notin versions
    /\ loaded = [raised |-> FALSE, value |-> EmptyDict]

\* A save by w has completed and nothing else has touched the file since w
\* opened it.
SavedAlone(w) ==
    /\ wstatus[w] = "done"
    /\ wpc[w] = "idle"
    /\ quiet[w]

\* C6: after a save of a record has completed with no other writer touching
\* the file, loading returns a mapping whose entry under the record's name is
\* the record, field by field.
C6_RoundTrip ==
    \A w \in Writers :
        SavedAlone(w) =>
            LET got == load_saved_analyses(disk)
            IN  /\ ~got.raised
                /\ HasKey(got.value, NameOf(wrec[w]))
                /\ GetItem(got.value, NameOf(wrec[w])) = wrec[w]
                /\ \A k \in {K_name, K_timestamp, K_note, K_oxides, K_result} :
                       GetItem(GetItem(got.value, NameOf(wrec[w])), k) = GetItem(wrec[w], k)

\* C6's case: the record "b", whose note holds quotes, a newline and a
\* backslash, was saved alone into a document that held another "b", and the
\* reader has loaded it back.
C6_Witness ==
    \E w \in Writers :
        /\ SavedAlone(w)
        /\ NameOf(wrec[w]) = <<"b">>
        /\ Len(GetItem(wrec[w], K_note).s) > 0
        /\ observed = View(disk)
        /\ HasKey(loaded.value, <<"a">>)
        /\ GetItem(loaded.value, <<"b">>) = wrec[w]

BothSaved == \A w \in Writers : wstatus[w] = "done" /\ wpc[w] = "idle"

\* C7: when both writers have saved, the file holds exactly the document one
\* of the two wrote: well-formed, not a mixture of the two writes.
C7_LastWriterWins ==
    BothSaved =>
        /\ disk.exists
        /\ \E w \in Writers : disk.content = wtext[w]
        /\ ~json_load(disk.content).raised

====
